---- MODULE Spec2Model ----
(***************************************************************************)
(* Pack v4 object decoder (packv4-parse.c): hash references, the shared    *)
(* identity / path dictionaries and their lazy cache on the pack handle,   *)
(* the commit reconstructor and the tree reconstructor with its            *)
(* cross-object copy ranges.                                               *)
(*                                                                         *)
(* A pack is a byte sequence (0-based offsets, as in the C code) plus the  *)
(* table of the deflate streams stored in it: zlib is an external          *)
(* collaborator, so a stream is known by where it starts, how many         *)
(* compressed bytes it takes and what it inflates to.                      *)
(***************************************************************************)
EXTENDS Integers, Sequences, FiniteSets, TLC

VARIABLES
    pack,            \* the pack file: bytes, streams, object offsets, contents
    ident_dict,      \* p->ident_dict
    path_dict,       \* p->path_dict
    ident_dict_end,  \* p->ident_dict_end
    pc,              \* position of the (single) caller
    frames,          \* call stack of decode_entries, innermost last
    dst,             \* bytes written to the output buffer so far
    sizep,           \* remaining declared size (*sizep / size)
    result,          \* outcome of the last finished call
    hist,            \* history: dictionary loads, copies made, records returned
    thr,             \* concurrent callers of the dictionary cache
    dictIn,          \* input of a direct load_dict run
    dictOut          \* its result

vars == <<pack, ident_dict, path_dict, ident_dict_end, pc, frames, dst, sizep,
          result, hist, thr, dictIn, dictOut>>

\* The null pointer to a dictionary, and the null pointer to a record in one.
NULL == [null |-> TRUE]
NULLREF == -1

Min(a, b) == IF a < b THEN a ELSE b

\* a >= b on unsigned longs; a value that wrapped below zero is kept as its
\* negative two's-complement reading.
UGe(a, b) == IF (a < 0) = (b < 0) THEN a >= b ELSE a < 0

\* Length of an object name; the literal 20 of the source.
HASH_LEN == 20

\* Bytes of the pack header that precede the hash table.
PACK_HDR_LEN == 12

\* The byte at 0-based offset o of s (0 when s does not reach that far).
At(s, o) == IF o + 1 \in DOMAIN s THEN s[o + 1] ELSE 0

----------------------------------------------------------------------------
(* Varint codec (varint.c; decode_varint is called throughout).           *)

RECURSIVE VarintFrom(_, _, _)
VarintFrom(s, pos, acc) ==
    LET c == At(s, pos)
        v == acc * 128 + (c % 128)
    IN  IF c >= 128 THEN VarintFrom(s, pos + 1, v + 1)
        ELSE [val |-> v, pos |-> pos + 1]

\* decode_varint(&cp) with cp at offset pos of s: the value and the new cursor.
DecodeVarint(s, pos) == VarintFrom(s, pos, 0)

RECURSIVE EncodeHigh(_)
EncodeHigh(v) ==
    LET w == v - 1
    IN  (IF w \div 128 > 0 THEN EncodeHigh(w \div 128) ELSE <<>>)
        \o <<128 + (w % 128)>>

\* The producer's encoding, used to lay out packs.
EncodeVarint(n) ==
    (IF n \div 128 > 0 THEN EncodeHigh(n \div 128) ELSE <<>>) \o <<n % 128>>

----------------------------------------------------------------------------
(* Pack layout.                                                            *)

\* The i-th (0-based) entry of the pack's sorted hash table.
Sha1Of(i) == [k \in 1..HASH_LEN |-> 16 * (i + 1) + (k % 16)]

RECURSIVE Sha1Table(_)
Sha1Table(n) == IF n = 0 THEN <<>> ELSE Sha1Table(n - 1) \o Sha1Of(n - 1)

\* The compressed bytes of a deflate stream as they sit in the pack.
ZBytes(payload) == <<120, 156, Len(payload) % 256>>

\* git_inflate(Z_FINISH) run to the end of the loop of load_dict /
\* pv4_get_commit: the stream that starts at pos, with avail_out bytes of room.
Inflate(pk, pos, avail_out) ==
    LET zs == {z \in pk.z : z.at = pos}
    IN  IF zs = {}
        THEN [st |-> "Z_DATA_ERROR", total_out |-> 0, out |-> <<>>, used |-> 0]
        ELSE LET z == CHOOSE y \in zs : TRUE
             IN  IF Len(z.data) <= avail_out
                 THEN [st |-> "Z_STREAM_END", total_out |-> Len(z.data),
                       out |-> z.data, used |-> z.clen]
                 ELSE [st |-> "Z_BUF_ERROR", total_out |-> avail_out,
                       out |-> SubSeq(z.data, 1, avail_out), used |-> z.clen]

----------------------------------------------------------------------------
(* Dictionary loader.                                                      *)

\* strlen((const char *)cp) on the buffer (which ends with the NUL of xmallocz).
RECURSIVE Strlen(_, _)
Strlen(data, cp) ==
    IF cp >= Len(data) \/ At(data, cp) = 0 THEN 0 ELSE 1 + Strlen(data, cp + 1)

\* The loop condition of the counting pass.
WalkMore(cp, dict_size) == cp < dict_size - 3

\* The size check after the counting pass: TRUE when the dictionary is kept.
SizeMatches_Unchecked(cp, dict_size) == TRUE
SizeMatches(cp, dict_size) == cp = dict_size

\* The counting pass: where the cursor ends and how many entries it passed.
RECURSIVE CountEntries(_, _, _, _)
CountEntries(data, dict_size, cp, n) ==
    IF WalkMore(cp, dict_size)
    THEN LET c2 == cp + 2
             c3 == c2 + Strlen(data, c2)
         IN  CountEntries(data, dict_size, c3 + 1, n + 1)
    ELSE [cp |-> cp, nb_entries |-> n]

\* The indexing pass: offsets[0 .. nb_entries-1] (kept 1-based here).
RECURSIVE FillOffsets(_, _, _)
FillOffsets(data, cp, left) ==
    IF left = 0 THEN <<>>
    ELSE <<cp>> \o FillOffsets(data, cp + 2 + Strlen(data, cp + 2) + 1, left - 1)

\* load_dict once the buffer is inflated: the two passes over data, which
\* is the inflated dictionary followed by the NUL that xmallocz adds.
LoadDictIndex(offset, dict_size, data, newoffset) ==
    LET walk == CountEntries(data, dict_size, 0, 0)
    IN  IF ~SizeMatches(walk.cp, dict_size)
        THEN [dict |-> NULL, offset |-> offset, w_curs |-> "released",
              err |-> "dict size mismatch"]
        ELSE [dict |-> [data |-> data, nb_entries |-> walk.nb_entries,
                        offsets |-> FillOffsets(data, 0, walk.nb_entries)],
              offset |-> newoffset, w_curs |-> "released", err |-> "none"]

\* load_dict from the inflate loop on: hdr is the decoded size and the
\* cursor after it, inf what the loop produced.
LoadDictInflated(offset, hdr, inf) ==
    IF inf.st # "Z_STREAM_END" \/ inf.total_out # hdr.val
    THEN [dict |-> NULL, offset |-> offset, w_curs |-> "released",
          err |-> "pack dictionary bad"]
    ELSE LoadDictIndex(offset, hdr.val, inf.out \o <<0>>, hdr.pos + inf.used)

\* load_dict from the size check on.
LoadDictSized(pk, offset, hdr) ==
    IF hdr.val < 3
    THEN [dict |-> NULL, offset |-> offset, w_curs |-> "held",
          err |-> "bad dict size"]
    ELSE LoadDictInflated(offset, hdr, Inflate(pk, hdr.pos, hdr.val + 1))

\* load_dict(p, &offset): the dictionary (or NULL), the offset written back,
\* and whether the window it acquired is still held when it returns.
LoadDict(pk, offset) == LoadDictSized(pk, offset, DecodeVarint(pk.bytes, offset))

\* off_t offset = 12 + p->num_objects * 20
IdentDictOffset(pk) == PACK_HDR_LEN + pk.num_objects * HASH_LEN

----------------------------------------------------------------------------
(* Dictionary cache on the pack handle.  A handle h is                     *)
(* [ident_dict, path_dict, ident_dict_end]; g counts, for the record, how   *)
(* often each dictionary was built and stored and from which offset.  The  *)
(* loaders return [h, g, died]: died when they ended in die().             *)

Loaded(h, g) == [h |-> h, g |-> g, died |-> FALSE]

\* if (!names) die(...); p->ident_dict = names; p->ident_dict_end = offset;
StoreIdent(h, g, names, from) ==
    IF names.dict = NULL THEN [h |-> h, g |-> g, died |-> TRUE]
    ELSE Loaded([h EXCEPT !.ident_dict = names.dict,
                          !.ident_dict_end = names.offset],
                [g EXCEPT !.identLoads = @ + 1, !.identFrom = from])

\* load_ident_dict(p)
LoadIdentDict(pk, h, g) ==
    StoreIdent(h, g, LoadDict(pk, IdentDictOffset(pk)), IdentDictOffset(pk))

\* if (!p->ident_dict)
NeedIdent_Always(h) == TRUE

NeedIdent(h) == h.ident_dict = NULL

\* if (!p->ident_dict) load_ident_dict(p);
EnsureIdent(pk, h, g) ==
    IF NeedIdent(h) THEN LoadIdentDict(pk, h, g) ELSE Loaded(h, g)

\* The offset load_path_dict hands to load_dict.
PathDictOffset_Fixed(pk, h) == IdentDictOffset(pk)

PathDictOffset(pk, h) == h.ident_dict_end

\* if (!paths) die(...); p->path_dict = paths;
StorePath(h, g, paths, from) ==
    IF paths.dict = NULL THEN [h |-> h, g |-> g, died |-> TRUE]
    ELSE Loaded([h EXCEPT !.path_dict = paths.dict],
                [g EXCEPT !.pathLoads = @ + 1, !.pathFrom = from])

\* load_path_dict from the point where the identity dictionary is there.
LoadPathDictAfter(pk, a) ==
    IF a.died THEN a
    ELSE StorePath(a.h, a.g, LoadDict(pk, PathDictOffset(pk, a.h)),
                   PathDictOffset(pk, a.h))

\* load_path_dict(p)
LoadPathDict(pk, h, g) == LoadPathDictAfter(pk, EnsureIdent(pk, h, g))

\* The bounds check shared by get_identref and get_pathref.
IndexOverflow(index, dict) == index >= dict.nb_entries

\* The lookup in a dictionary that is loaded (a is what the loader
\* returned): ref is the offset of the record in the data, or NULLREF.
Lookup(a, dict, index, pos) ==
    IF a.died THEN [h |-> a.h, g |-> a.g, died |-> TRUE, ref |-> NULLREF, pos |-> pos]
    ELSE [h |-> a.h, g |-> a.g, died |-> FALSE, pos |-> pos,
          ref |-> IF IndexOverflow(index, dict) THEN NULLREF
                  ELSE dict.offsets[index + 1]]

IdentLookup(a, v) == Lookup(a, a.h.ident_dict, v.val, v.pos)

\* get_identref(p, &srcp) with srcp at offset pos of buf.
GetIdentref(pk, h, g, buf, pos) ==
    IdentLookup(EnsureIdent(pk, h, g), DecodeVarint(buf, pos))

\* if (!p->path_dict)
NeedPath(h) == h.path_dict = NULL

\* if (!p->path_dict) load_path_dict(p);
EnsurePath(pk, h, g) ==
    IF NeedPath(h) THEN LoadPathDict(pk, h, g) ELSE Loaded(h, g)

PathLookup(a, index) == Lookup(a, a.h.path_dict, index, 0)

\* get_pathref(p, index)
GetPathref(pk, h, g, index) == PathLookup(EnsurePath(pk, h, g), index)

----------------------------------------------------------------------------
(* Hash references.                                                        *)

\* The range check on an indexed reference: TRUE when get_sha1ref dies.
BadIndex(index, num_objects) == index < 1 \/ index - 1 > num_objects

\* get_sha1ref(p, &bufp) with bufp at offset pos of buf.  The result names
\* the 20 bytes by where they are: entry number `entry` of the hash table
\* (0-based; entry = num_objects is one past its end), or the offset `inl`
\* in buf of an inline hash.
GetSha1ref(pk, buf, pos) ==
    IF At(buf, pos) = 0
    THEN [died |-> FALSE, inl |-> pos + 1, entry |-> -1, pos |-> pos + 21]
    ELSE LET v == DecodeVarint(buf, pos)
         IN  IF BadIndex(v.val, pk.num_objects)
             THEN [died |-> TRUE, inl |-> -1, entry |-> -1, pos |-> v.pos]
             ELSE [died |-> FALSE, inl |-> -1, entry |-> v.val - 1, pos |-> v.pos]

\* The 20 bytes a result of get_sha1ref points at.  The hash table sits in
\* the pack right after the header, so entry e is at 12 + 20 * e.
Sha1Bytes(pk, buf, r) ==
    IF r.inl >= 0 THEN [k \in 1..HASH_LEN |-> At(buf, r.inl + k - 1)]
    ELSE [k \in 1..HASH_LEN |->
            At(pk.bytes, PACK_HDR_LEN + r.entry * HASH_LEN + k - 1)]

\* find_pack_entry_one(sha1, p): the offset of the object named by the 20
\* bytes at pos, 0 when the pack has no such object.
FindPackEntryOne(pk, pos) ==
    LET name == [k \in 1..HASH_LEN |-> At(pk.bytes, pos + k - 1)]
        hit == {i \in 1..pk.num_objects : Sha1Of(i - 1) = name}
    IN  IF hit = {} THEN 0 ELSE pk.objoff[CHOOSE i \in hit : TRUE]

\* nth_packed_object_offset(p, n)
NthPackedObjectOffset(pk, n) == pk.objoff[n + 1]

----------------------------------------------------------------------------
(* Tree reconstructor.  The run of one pv4_get_tree call is a machine      *)
(* state m = [h, g, frames, dst, sizep, st, log, ends]: the handle and its  *)
(* load counts, the stack of decode_entries frames (innermost last), the   *)
(* bytes written, the remaining size, and st: "run" while decoding, then   *)
(* "ok" (buffer returned), "fail" (NULL returned), "die" (die() called) or  *)
(* "depth" (the recursion went deeper than this model follows).            *)
(* log and ends record, for the properties, which copy records recursed     *)
(* and where each emitted entry ends in the output.                        *)
(*                                                                         *)
(* A frame holds the locals of decode_entries; pointers into the window    *)
(* are kept as pack offsets (src is always the pointer for `offset`).      *)
(* pcf is "enter" before the prologue has run, "loop" at the head of the   *)
(* while loop, "call" while a recursive call is running.  win is the       *)
(* window of the frame's last use_pack, or StaleWindow once a recursive call *)
(* may have moved the window.  obj, rec, emitted, start0 and count0 are     *)
(* bookkeeping for the properties: the object being read, the number of    *)
(* records consumed, the entries emitted for this frame and the arguments. *)

\* Type tag of a tree object in a v4 pack.
OBJ_PV4_TREE == 10

\* How deep the recursion is followed.
MaxDepth == 4

\* use_pack(p, w_curs, offset, &avail): the bytes left in the window.
Avail(pk, offset) == Len(pk.bytes) - offset

\* The object whose header or payload starts at this offset (0 if none).
ObjAt(pk, offset) ==
    LET hit == {i \in 1..Len(pk.objoff) :
                    pk.objoff[i] = offset \/ pk.payoff[i] = offset}
    IN  IF hit = {} THEN 0 ELSE CHOOSE i \in hit : TRUE

\* What a frame knows of the pack window behind its src pointer: none yet,
\* the one use_pack gave it at an offset, or one that a recursive call may
\* have moved.
NoWindow == [none |-> TRUE]

Window(offset) == [at |-> offset]

StaleWindow == [stale |-> TRUE]

NewFrame(pk, offset, start, count, parse_hdr) ==
    [offset |-> offset, start |-> start, count |-> count, avail |-> 0,
     scp |-> offset, copy_objoffset |-> 0, parse_hdr |-> parse_hdr,
     pcf |-> "enter", win |-> NoWindow,
     obj |-> ObjAt(pk, offset), rec |-> 0, emitted |-> 0,
     start0 |-> start, count0 |-> count]

Top(m) == m.frames[Len(m.frames)]

SetTop(m, f) == [m EXCEPT !.frames[Len(m.frames)] = f]

\* return -1, handed up through every caller to pv4_get_tree, which frees
\* the buffer and returns NULL.
Fail(m) == [m EXCEPT !.st = "fail", !.frames = <<>>]

Die(m) == [m EXCEPT !.st = "die", !.frames = <<>>]

\* Skipping the object header: the cursor after the last header byte, or -1.
RECURSIVE SkipObjHeader(_, _, _, _)
SkipObjHeader(bytes, scp, src, avail) ==
    IF At(bytes, scp) >= 128
    THEN IF UGe((scp + 1) - src, avail - 20) THEN -1
         ELSE SkipObjHeader(bytes, scp + 1, src, avail)
    ELSE scp

\* The range check of the prologue: TRUE when the call is refused.
BadRange_StartOnly(start, count, nb_entries) == start > nb_entries

BadRange(start, count, nb_entries) ==
    start > nb_entries \/ count > nb_entries - start

\* decode_entries up to the head of its loop.
TreeEnter(pk, m) ==
    LET f == Top(m)
        src == f.offset
        avail == Avail(pk, f.offset)
        hdr == IF f.parse_hdr THEN SkipObjHeader(pk.bytes, src, src, avail)
               ELSE src
    IN  IF hdr < 0 THEN Fail(m)
        ELSE IF f.parse_hdr /\ (At(pk.bytes, hdr) % 16) # OBJ_PV4_TREE THEN Fail(m)
        ELSE
        LET nb == DecodeVarint(pk.bytes, IF f.parse_hdr THEN hdr + 1 ELSE hdr)
        IN  IF nb.pos = src \/ BadRange(f.start, f.count, nb.val) THEN Fail(m)
            ELSE SetTop(m, [f EXCEPT !.offset = nb.pos,
                                     !.avail = avail - (nb.pos - src),
                                     !.scp = nb.pos,
                                     !.win = Window(src),
                                     !.pcf = "loop"])

\* Skipping the hash reference of an entry in the skip region.
RECURSIVE SkipVarintBytes(_, _)
SkipVarintBytes(bytes, scp) ==
    IF At(bytes, scp) >= 128 THEN SkipVarintBytes(bytes, scp + 1) ELSE scp + 1

SkipSha1ref(bytes, scp) ==
    IF At(bytes, scp) = 0 THEN scp + 1 + 20 ELSE SkipVarintBytes(bytes, scp)

RECURSIVE OctDigits(_)
OctDigits(n) ==
    IF n < 8 THEN <<48 + n>> ELSE OctDigits(n \div 8) \o <<48 + (n % 8)>>

\* The string that starts at offset o of a dictionary buffer.
CStr(data, o) == SubSeq(data, o + 1, o + Strlen(data, o))

\* snprintf(..., "%o %s%c", mode, path+2, '\0') for the record at offset ref.
EntryText(dict, ref) ==
    LET mode == At(dict.data, ref) * 256 + At(dict.data, ref + 1)
    IN  OctDigits(mode) \o <<32>> \o CStr(dict.data, ref + 2) \o <<0>>

\* The overflow check of an emitted entry: TRUE when the entry does not fit.
EntryOverflow(len, size) == len + 20 > size

\* The end of every loop iteration: offset += scp - src; avail -= scp - src.
Advance(f, scp) ==
    [f EXCEPT !.offset = scp, !.avail = @ - (scp - f.offset), !.scp = scp,
              !.rec = @ + 1]

\* An inline entry in the skip region.
SkipEntry(pk, m, f, scp) ==
    SetTop(m, Advance([f EXCEPT !.start = @ - 1], SkipSha1ref(pk.bytes, scp)))

\* An inline entry to recreate, from the overflow check on: text is what
\* snprintf produced (the NUL included), sr the hash reference.
EmitText(pk, m, f, sr, text) ==
    IF EntryOverflow(Len(text), m.sizep) THEN Fail(m)
    ELSE SetTop([m EXCEPT !.dst = @ \o text \o Sha1Bytes(pk, pk.bytes, sr),
                          !.sizep = @ - (Len(text) + 20),
                          !.ends = Append(@, Len(m.dst) + Len(text) + 20)],
                Advance([f EXCEPT !.count = @ - 1, !.emitted = @ + 1], sr.pos))

\* if (!path || !sha1) return -1;
EmitRefs(pk, m, f, ref, sr) ==
    IF sr.died THEN Die(m)
    ELSE IF ref = NULLREF THEN Fail(m)
    ELSE EmitText(pk, m, f, sr, EntryText(m.h.path_dict, ref))

\* path = get_pathref(...) has returned pr; sha1 = get_sha1ref(p, &scp).
EmitPath(pk, m, f, scp, pr) ==
    IF pr.died THEN Die([m EXCEPT !.h = pr.h, !.g = pr.g])
    ELSE EmitRefs(pk, [m EXCEPT !.h = pr.h, !.g = pr.g], f, pr.ref,
                  GetSha1ref(pk, pk.bytes, scp))

\* An inline entry to recreate.
EmitEntry(pk, m, f, what, scp) ==
    EmitPath(pk, m, f, scp, GetPathref(pk, m.h, m.g, what \div 2))

\* The source object of a copy record: the sticky offset, replaced when the
\* record carries one.  src is [offset, scp].
CopySource(pk, f, raw, scp) ==
    IF raw % 2 = 1
    THEN LET index == DecodeVarint(pk.bytes, scp)
         IN  IF index.val = 0
             THEN [offset |-> FindPackEntryOne(pk, index.pos), scp |-> index.pos + 20]
             ELSE [offset |-> NthPackedObjectOffset(pk, index.val - 1),
                   scp |-> index.pos]
    ELSE [offset |-> f.copy_objoffset, scp |-> scp]

\* The range handed to the recursive call: [start, count] in the source.
CopyRange_NoShift(copy_start, copy_count, start, count) ==
    [start |-> copy_start, count |-> Min(copy_count - start, count)]

CopyRange_NoClip(copy_start, copy_count, start, count) ==
    [start |-> copy_start + start, count |-> copy_count - start]

CopyRange(copy_start, copy_count, start, count) ==
    [start |-> copy_start + start, count |-> Min(copy_count - start, count)]

\* if (!copy_objoffset) return -1;
NoSource_Never(copy_objoffset) == FALSE

NoSource(copy_objoffset) == copy_objoffset = 0

\* A copy record.
CopyRecord(pk, m, f, what, scp0) ==
    LET copy_start == what \div 2
        cc == DecodeVarint(pk.bytes, scp0)
    IN  IF cc.val = 0 THEN Fail(m)
        ELSE
        LET cs == CopySource(pk, f, cc.val, cc.pos)
            copy_count == cc.val \div 2
            f1 == [f EXCEPT !.copy_objoffset = cs.offset]
        IN  IF NoSource(cs.offset) THEN Fail(m)
            ELSE IF f.start >= copy_count
            THEN SetTop(m, Advance([f1 EXCEPT !.start = @ - copy_count], cs.scp))
            ELSE
            LET r == CopyRange(copy_start, copy_count, f.start, f.count)
                caller == [f1 EXCEPT !.start = 0, !.count = @ - r.count,
                                     !.scp = cs.scp, !.pcf = "call"]
            IN  IF Len(m.frames) >= MaxDepth
                THEN [m EXCEPT !.st = "depth", !.frames = <<>>]
                ELSE [SetTop(m, caller) EXCEPT
                        !.frames = Append(@, NewFrame(pk, cs.offset, r.start,
                                                      r.count, TRUE)),
                        !.log = Append(@, [depth |-> Len(m.frames),
                                           obj |-> f.obj, rec |-> f.rec,
                                           src |-> cs.offset,
                                           start |-> r.start, count |-> r.count,
                                           from |-> Len(m.dst), to |-> -1])]

\* One iteration of the while loop of decode_entries.
TreeRecord(pk, m) ==
    LET f0 == Top(m)
        reacq == f0.avail < 20
        f == IF reacq THEN [f0 EXCEPT !.avail = Avail(pk, f0.offset),
                                      !.win = Window(f0.offset)]
             ELSE f0
    IN  IF f.avail < 20 THEN Fail(m)
        ELSE
        LET w == DecodeVarint(pk.bytes, f.offset)
        IN  IF w.pos = f.offset THEN Fail(m)
            ELSE IF w.val % 2 = 0 /\ f.start # 0 THEN SkipEntry(pk, m, f, w.pos)
            ELSE IF w.val % 2 = 0 THEN EmitEntry(pk, m, f, w.val, w.pos)
            ELSE CopyRecord(pk, m, f, w.val, w.pos)

\* The window after a recursive call: avail = scp - src forces use_pack.
AvailAfterCall_Keep(f) == f.avail

AvailAfterCall(f) == f.scp - f.offset

\* copy_objoffset is a local of decode_entries: when a call returns, the
\* caller (frame c) still has its own, whatever the callee (frame f) set.
SourceAfterCall_Leak(c, f) == f.copy_objoffset

SourceAfterCall(c, f) == c.copy_objoffset

\* return 0 from the innermost frame: to the calling frame, which resumes
\* after its copy record, or to pv4_get_tree, which checks the size.
TreeReturn(pk, m) ==
    LET n == Len(m.frames)
        f == m.frames[n]
    IN  IF n = 1
        THEN [m EXCEPT !.frames = <<>>,
                       !.st = IF m.sizep # 0 THEN "fail" ELSE "ok"]
        ELSE
        LET c == m.frames[n - 1]
            c1 == [c EXCEPT !.avail = AvailAfterCall(c), !.win = StaleWindow,
                            !.copy_objoffset = SourceAfterCall(c, f),
                            !.emitted = @ + f.emitted, !.pcf = "loop"]
            k == CHOOSE i \in 1..Len(m.log) :
                    /\ m.log[i].to = -1
                    /\ m.log[i].depth = n - 1
        IN  [m EXCEPT !.frames = Append(SubSeq(m.frames, 1, n - 2),
                                        Advance(c1, c.scp)),
                      !.log[k].to = Len(m.dst)]

\* One step of a running decode.
TreeStep(pk, m) ==
    LET f == Top(m)
    IN  IF f.pcf = "enter" THEN TreeEnter(pk, m)
        ELSE IF f.count # 0 THEN TreeRecord(pk, m)
        ELSE TreeReturn(pk, m)

\* pv4_get_tree(p, w_curs, offset, size) up to its call of decode_entries.
TreeCall(pk, h, g, offset, size) ==
    LET nb == DecodeVarint(pk.bytes, offset)
        m0 == [h |-> h, g |-> g, frames |-> <<>>, dst |-> <<>>, sizep |-> size,
               st |-> "run", log |-> <<>>, ends |-> <<>>]
    IN  IF nb.pos = offset THEN [m0 EXCEPT !.st = "fail"]
        ELSE [m0 EXCEPT !.frames = <<NewFrame(pk, offset, 0, nb.val, FALSE)>>]

\* The whole call, run to its end.
RECURSIVE TreeRun(_, _)
TreeRun(pk, m) == IF m.st # "run" THEN m ELSE TreeRun(pk, TreeStep(pk, m))

Pv4GetTreeRun(pk, h, g, offset, size) == TreeRun(pk, TreeCall(pk, h, g, offset, size))

----------------------------------------------------------------------------
(* Commit reconstructor.                                                   *)
(*                                                                         *)
(* size is an unsigned long.  A value that wrapped below zero is kept as   *)
(* its (negative) two's-complement reading, and the comparisons the code   *)
(* makes on it are made unsigned.                                          *)

HexDigit(n) == IF n < 10 THEN 48 + n ELSE 87 + n

\* sha1_to_hex
RECURSIVE Sha1ToHex(_)
Sha1ToHex(sha1) ==
    IF sha1 = <<>> THEN <<>>
    ELSE <<HexDigit(Head(sha1) \div 16), HexDigit(Head(sha1) % 16)>>
         \o Sha1ToHex(Tail(sha1))

RECURSIVE DecDigits(_)
DecDigits(n) ==
    IF n < 10 THEN <<48 + n>> ELSE DecDigits(n \div 10) \o <<48 + (n % 10)>>

\* "%+05d" of the int16_t made of the two prefix bytes of an identity.
TzText(b0, b1) ==
    LET u == b0 * 256 + b1
        tz == IF u >= 32768 THEN u - 65536 ELSE u
        mag == IF tz < 0 THEN -tz ELSE tz
        d == DecDigits(mag)
        pad == [i \in 1..(IF Len(d) < 4 THEN 4 - Len(d) ELSE 0) |-> 48]
    IN  <<IF tz < 0 THEN 45 ELSE 43>> \o pad \o d

\* "tree ", "parent ", "author ", "committer " as bytes.
TreeWord == <<116, 114, 101, 101, 32>>
ParentWord == <<112, 97, 114, 101, 110, 116, 32>>
AuthorWord == <<97, 117, 116, 104, 111, 114, 32>>
CommitterWord == <<99, 111, 109, 109, 105, 116, 116, 101, 114, 32>>

\* "<word>%s %lu %+05d\n" for the identity record at offset ref.
IdentLine(word, dict, ref, time) ==
    word \o CStr(dict.data, ref + 2) \o <<32>> \o DecDigits(time) \o <<32>>
    \o TzText(At(dict.data, ref), At(dict.data, ref + 1)) \o <<10>>

\* The overflow check after the parent, author and committer lines.
LineOverflow(len, size) == UGe(len, size)

\* The state of a commit decode between its steps: st is "run", or how the
\* call ended: "ok", "fail" (NULL), "die", "crash" (a NULL identity record
\* was read) or "ub" (a line was written past the end of the buffer).
\* dcp and size are the output cursor and the remaining size, dst the text
\* produced so far, alloc the bytes the buffer holds.
CommitEnd(c, how) == [c EXCEPT !.st = how]

\* What snprintf(dcp, size, ...) stores of a line (the NUL aside).
SnprintfOut(line, size) ==
    IF size = 0 THEN <<>> ELSE SubSeq(line, 1, Min(Len(line), size - 1))

\* One line emitted by snprintf at dcp, with the check that follows it
\* (the tree line has none).
EmitLine(c, line, checked) ==
    IF c.size < 0 THEN CommitEnd(c, "ub")
    ELSE IF checked /\ LineOverflow(Len(line), c.size) THEN CommitEnd(c, "die")
    ELSE [c EXCEPT !.dst = @ \o SnprintfOut(line, c.size), !.dcp = @ + Len(line),
                   !.size = @ - Len(line),
                   !.lines = Append(@, Len(line))]

\* while (nb_parents--) { ... }
RECURSIVE CommitParents(_, _, _)
CommitParents(pk, c, n) ==
    IF n = 0 \/ c.st # "run" THEN c
    ELSE LET sr == GetSha1ref(pk, pk.bytes, c.scp)
         IN  IF sr.died THEN CommitEnd(c, "die")
             ELSE CommitParents(pk,
                     EmitLine([c EXCEPT !.scp = sr.pos],
                              ParentWord \o Sha1ToHex(Sha1Bytes(pk, pk.bytes, sr)) \o <<10>>,
                              TRUE),
                     n - 1)

\* The author line and the committer line, each with its check.
CommitLines(c, ct, ci, at, ai) ==
    LET author_time == IF at.val % 2 = 1 THEN ct.val + (at.val \div 2)
                       ELSE ct.val - (at.val \div 2)
        c2 == EmitLine(c, IdentLine(AuthorWord, c.h.ident_dict, ai.ref,
                                    author_time), TRUE)
    IN  IF c2.st # "run" THEN c2
        ELSE EmitLine(c2, IdentLine(CommitterWord, c.h.ident_dict,
                                    ci.ref, ct.val), TRUE)

\* author_time and the author: ai is what get_identref returned, and
\* ident[0] is read from it unchecked.
CommitAuthor(c, ct, ci, at, ai) ==
    IF ai.died THEN CommitEnd([c EXCEPT !.h = ai.h, !.g = ai.g, !.scp = ai.pos], "die")
    ELSE IF ai.ref = NULLREF
    THEN CommitEnd([c EXCEPT !.h = ai.h, !.g = ai.g, !.scp = ai.pos], "crash")
    ELSE CommitLines([c EXCEPT !.h = ai.h, !.g = ai.g, !.scp = ai.pos],
                     ct, ci, at, ai)

\* commit_time and the committer: ci is what get_identref returned, and
\* ident[0] is read from it unchecked.
CommitCommitter(pk, c, ct, ci) ==
    IF ci.died THEN CommitEnd([c EXCEPT !.h = ci.h, !.g = ci.g], "die")
    ELSE IF ci.ref = NULLREF
    THEN CommitEnd([c EXCEPT !.h = ci.h, !.g = ci.g], "crash")
    ELSE CommitAuthor(c, ct, ci, DecodeVarint(pk.bytes, ci.pos),
                      GetIdentref(pk, ci.h, ci.g, pk.bytes,
                                  DecodeVarint(pk.bytes, ci.pos).pos))

\* commit_time, the committer, author_time, the author, and their two lines.
CommitIdents(pk, c) ==
    CommitCommitter(pk, c, DecodeVarint(pk.bytes, c.scp),
                    GetIdentref(pk, c.h, c.g, pk.bytes,
                                DecodeVarint(pk.bytes, c.scp).pos))

\* The final test of pv4_get_commit: TRUE when the buffer is returned.
MessageFits_AtMost(inf, size) == inf.st = "Z_STREAM_END" /\ inf.total_out <= size
MessageFits(inf, size) == inf.st = "Z_STREAM_END" /\ inf.total_out = size

\* The message: inflated into what is left of the buffer.
CommitMessage(pk, c, offset) ==
    LET avail == Avail(pk, offset)
    IN  IF c.scp - offset > avail THEN CommitEnd(c, "die")
        ELSE
        LET inf == Inflate(pk, c.scp, c.size + 1)
            c1 == [c EXCEPT !.dst = @ \o inf.out, !.msg = inf.total_out]
        IN  IF MessageFits(inf, c.size) THEN CommitEnd(c1, "ok")
            ELSE CommitEnd(c1, "fail")

\* The message, unless the identity lines ended the call.
CommitMessageAfter(pk, c, offset) ==
    IF c.st # "run" THEN c ELSE CommitMessage(pk, c, offset)

\* pv4_get_commit after the parent lines.
CommitAfterParents(pk, c, offset) ==
    IF c.st # "run" THEN c
    ELSE CommitMessageAfter(pk, CommitIdents(pk, c), offset)

\* pv4_get_commit after the tree line.
CommitAfterTree(pk, c, np, offset) ==
    CommitAfterParents(pk, CommitParents(pk, [c EXCEPT !.scp = np.pos], np.val),
                       offset)

\* pv4_get_commit from the tree reference tr on.
CommitFromTree(pk, c, tr, offset) ==
    IF tr.died THEN CommitEnd(c, "die")
    ELSE CommitAfterTree(pk,
            EmitLine([c EXCEPT !.scp = tr.pos],
                     TreeWord \o Sha1ToHex(Sha1Bytes(pk, pk.bytes, tr)) \o <<10>>,
                     FALSE),
            DecodeVarint(pk.bytes, tr.pos), offset)

\* pv4_get_commit(p, w_curs, offset, size)
Pv4GetCommit(pk, h, g, offset, size) ==
    CommitFromTree(pk,
        [h |-> h, g |-> g, st |-> "run", scp |-> offset, dst |-> <<>>,
         dcp |-> 0, size |-> size, alloc |-> size + 1, lines |-> <<>>,
         msg |-> 0],
        GetSha1ref(pk, pk.bytes, offset), offset)

----------------------------------------------------------------------------
(* Packs the decoder is run on.  They are laid out the way the producer    *)
(* lays them out: header, hash table, identity dictionary, path            *)
(* dictionary, objects, trailer.                                           *)

\* An inline tree entry: path index, and hash reference (0: the hash is
\* inline, i >= 1: entry i of the hash table).
Inl(p, href) == [k |-> "inl", path |-> p, href |-> href]

\* A copy record: first entry, count, source-changed flag, source object
\* (i >= 1: by index i, i <= -1: by the inline hash of object -i).
Cpy(s, c, flag, src) ==
    [k |-> "cpy", start |-> s, count |-> c, flag |-> flag, src |-> src]

\* A hash that is in no pack.
InlineSha1 == [k \in 1..HASH_LEN |-> 200 + k]

HrefBytes(href) == IF href = 0 THEN <<0>> \o InlineSha1 ELSE EncodeVarint(href)

EncodeRecord(r) ==
    IF r.k = "inl" THEN EncodeVarint(2 * r.path) \o HrefBytes(r.href)
    ELSE EncodeVarint(2 * r.start + 1) \o EncodeVarint(2 * r.count + r.flag)
         \o (IF r.flag = 0 THEN <<>>
             ELSE IF r.src < 0 THEN <<0>> \o Sha1Of(-r.src - 1)
             ELSE EncodeVarint(r.src))

RECURSIVE EncodeRecords(_)
EncodeRecords(recs) ==
    IF recs = <<>> THEN <<>> ELSE EncodeRecord(Head(recs)) \o EncodeRecords(Tail(recs))

RECURSIVE EncodeHrefs(_)
EncodeHrefs(hs) ==
    IF hs = <<>> THEN <<>> ELSE HrefBytes(Head(hs)) \o EncodeHrefs(Tail(hs))

TreeObj(recs, nb, hsize) ==
    [kind |-> "tree", recs |-> recs, nb |-> nb, hsize |-> hsize]

CommitObj(tree, parents, ctime, cidx, adelta, aidx, msg) ==
    [kind |-> "commit", tree |-> tree, parents |-> parents, ctime |-> ctime,
     cidx |-> cidx, adelta |-> adelta, aidx |-> aidx, msg |-> msg, hsize |-> 3]

\* Type tag of a commit object in a v4 pack.
OBJ_PV4_COMMIT == 9

ObjHeader(o) ==
    EncodeVarint(o.hsize * 16
                 + (IF o.kind = "tree" THEN OBJ_PV4_TREE ELSE OBJ_PV4_COMMIT))

\* The payload before the deflate stream (a tree has no stream).
ObjPayload(o) ==
    IF o.kind = "tree" THEN EncodeVarint(o.nb) \o EncodeRecords(o.recs)
    ELSE HrefBytes(o.tree) \o EncodeVarint(Len(o.parents)) \o EncodeHrefs(o.parents)
         \o EncodeVarint(o.ctime) \o EncodeVarint(o.cidx)
         \o EncodeVarint(o.adelta) \o EncodeVarint(o.aidx)

RECURSIVE LayObjects(_, _, _)
LayObjects(objs, i, acc) ==
    IF i > Len(objs) THEN acc
    ELSE LET o == objs[i]
             hdr == ObjHeader(o)
             pay == ObjPayload(o)
             at == Len(acc.bytes)
             zat == at + Len(hdr) + Len(pay)
         IN  LayObjects(objs, i + 1,
                [bytes |-> acc.bytes \o hdr \o pay
                           \o (IF o.kind = "commit" THEN ZBytes(o.msg) ELSE <<>>),
                 objoff |-> Append(acc.objoff, at),
                 payoff |-> Append(acc.payoff, at + Len(hdr)),
                 z |-> IF o.kind = "commit"
                       THEN acc.z \cup {[at |-> zat, clen |-> 3, data |-> o.msg]}
                       ELSE acc.z])

PackMagic == <<80, 65, 67, 75, 0, 0, 0, 4, 0, 0, 0, 0>>

PackTrailer == [k \in 1..HASH_LEN |-> 170]

PackOf(objs, laid) ==
    [bytes |-> laid.bytes \o PackTrailer, z |-> laid.z,
     num_objects |-> Len(objs), objoff |-> laid.objoff,
     payoff |-> laid.payoff, objs |-> objs]

\* The pack up to and including a dictionary declared decl bytes long that
\* inflates to buf.
WithDict(acc, decl, buf) ==
    [bytes |-> acc.bytes \o EncodeVarint(decl) \o ZBytes(buf),
     objoff |-> <<>>, payoff |-> <<>>,
     z |-> acc.z \cup {[at |-> Len(acc.bytes) + Len(EncodeVarint(decl)),
                        clen |-> 3, data |-> buf]}]

\* A pack of these objects whose dictionaries are declared idecl / pdecl
\* bytes long and inflate to ibuf / pbuf.
BuildPack(objs, idecl, ibuf, pdecl, pbuf) ==
    PackOf(objs,
           LayObjects(objs, 1,
              WithDict(WithDict([bytes |-> PackMagic \o Sha1Table(Len(objs)),
                                 objoff |-> <<>>, payoff |-> <<>>, z |-> {}],
                                idecl, ibuf),
                       pdecl, pbuf)))

\* Identities: "+0000 A", "+0200 Bo", "-0500 C".
GoodIdent == <<0, 0, 65, 0,  0, 200, 66, 111, 0,  254, 12, 67, 0>>

\* Paths: 100644 "a", 40000 "b".
GoodPath == <<129, 164, 97, 0,  64, 0, 98, 0>>

\* Object 1: a tree of three inline entries.
LeafTree == TreeObj(<<Inl(0, 0), Inl(1, 2), Inl(0, 3)>>, 3, 5)

\* The entries a tree's records stand for when each copy record is complete.
RECURSIVE NominalCount(_)
NominalCount(recs) ==
    IF recs = <<>> THEN 0
    ELSE (IF Head(recs).k = "inl" THEN 1 ELSE Head(recs).count)
         + NominalCount(Tail(recs))

\* Bounds of the generated packs.
MaxRecs == 2
MaxStart == 2
MaxCount == 2
MaxParents == 2
SizeLimit == 4096

SeqsUpTo(S, n) == UNION {[1..k -> S] : k \in 0..n}

\* Records of object 2: inline, copies from the leaf (by index, by hash,
\* past its end), from the tree itself, from object 3, and from the sticky
\* source.
SourceRecs ==
    {Inl(1, 1), Cpy(0, 1, 1, 1), Cpy(1, 2, 1, 1), Cpy(2, 2, 1, 1),
     Cpy(0, 1, 1, -1), Cpy(0, 1, 1, 2), Cpy(0, 1, 1, 3), Cpy(2, 1, 0, 0)}

SourceTrees == {TreeObj(r, NominalCount(r), 9) : r \in SeqsUpTo(SourceRecs, MaxRecs)}

\* Object 3: one copy record naming a range of object 2, alone or followed
\* by one more record.
RangeTrees ==
    {TreeObj(<<Cpy(s, c, f, 2)>> \o t, c + NominalCount(t), 2) :
        s \in 0..MaxStart, c \in 1..MaxCount, f \in {0, 1},
        t \in {<<>>, <<Inl(0, 0)>>, <<Cpy(0, 1, 0, 0)>>}}

\* Some sources and ranges to pair the generated ones with.
PlainSources ==
    {TreeObj(<<Inl(1, 1), Cpy(1, 2, 1, 1)>>, 3, 9),
     TreeObj(<<Cpy(0, 1, 1, 1), Cpy(2, 1, 0, 0)>>, 2, 9),
     TreeObj(<<Cpy(0, 2, 1, 1), Inl(1, 1), Cpy(2, 1, 0, 0)>>, 4, 9)}

PlainRanges ==
    {TreeObj(<<Cpy(0, 1, 1, 2)>>, 1, 2), TreeObj(<<Cpy(1, 1, 1, 2)>>, 1, 2)}

EmptyTree == TreeObj(<<>>, 0, 1)

PlainCommit == CommitObj(1, <<>>, 1000, 0, 0, 1, <<109, 10>>)

\* Object 4: a commit.
Commits ==
    {CommitObj(t, ps, 1000, ci, ad, 1, msg) :
        t \in {0, 1}, ps \in SeqsUpTo({2}, MaxParents), ci \in {0, 3},
        ad \in {0, 6, 7}, msg \in {<<>>, <<109, 10>>}}

GoodPack(objs) ==
    BuildPack(objs, Len(GoodIdent), GoodIdent, Len(GoodPath), GoodPath)

TreePacks ==
    {GoodPack(<<LeafTree, a, b, PlainCommit>>) :
        a \in SourceTrees, b \in PlainRanges}
    \cup {GoodPack(<<LeafTree, a, b, PlainCommit>>) :
        a \in PlainSources, b \in RangeTrees}

CommitPacks == {GoodPack(<<LeafTree, EmptyTree, EmptyTree, c>>) : c \in Commits}

\* Packs whose identity or path dictionary does not load.
BadDictPacks ==
    {BuildPack(<<LeafTree, EmptyTree, EmptyTree, PlainCommit>>,
               d[1], GoodIdent, d[2], GoodPath) :
        d \in {<<Len(GoodIdent) + 1, Len(GoodPath)>>,
               <<Len(GoodIdent), Len(GoodPath) - 1>>,
               <<2, Len(GoodPath)>>}}

NoHist ==
    [g |-> [identLoads |-> 0, pathLoads |-> 0, identFrom |-> -1, pathFrom |-> -1],
     log |-> <<>>, ends |-> <<>>, views |-> {}]

NoResult == [op |-> "none", st |-> "none"]

\* A fresh pack handle and a caller that has called nothing yet.
FreshCaller ==
    /\ ident_dict = NULL
    /\ path_dict = NULL
    /\ ident_dict_end = 0
    /\ frames = <<>>
    /\ dst = <<>>
    /\ sizep = 0
    /\ result = NoResult
    /\ hist = NoHist

Fresh ==
    /\ FreshCaller
    /\ pc = "idle"
    /\ thr = <<>>
    /\ dictIn = NULL
    /\ dictOut = NULL

FreshHandle == [ident_dict |-> NULL, path_dict |-> NULL, ident_dict_end |-> 0]

\* Sizes around n, and the extra ones given.
Around(n, more) == {k \in {n - 1, n, n + 1} \cup more : k >= 0}

\* Declared sizes worth trying for a tree: what the decode emits when it is
\* given all the room it wants, one less and one more.
TreeProbe(probe) == Around(Len(probe.dst), {})

TreeSizes(pk, t) ==
    TreeProbe(Pv4GetTreeRun(pk, FreshHandle, NoHist.g, pk.payoff[t], SizeLimit))

\* The same for a commit, and two sizes too small for its first line.
CommitProbe(probe) == Around(probe.dcp + probe.msg, {0, 45})

CommitSizes(pk, c) ==
    CommitProbe(Pv4GetCommit(pk, FreshHandle, NoHist.g, pk.payoff[c], SizeLimit))

\* The pack together with the sizes its objects will be asked for.
WithSizes(pk) ==
    [bytes |-> pk.bytes, z |-> pk.z, num_objects |-> pk.num_objects,
     objoff |-> pk.objoff, payoff |-> pk.payoff, objs |-> pk.objs,
     sizes |-> [i \in 1..Len(pk.objs) |->
                  IF pk.objs[i].kind = "tree" THEN TreeSizes(pk, i)
                  ELSE CommitSizes(pk, i)]]

Init ==
    /\ \/ pack \in {WithSizes(p) : p \in TreePacks}
       \/ pack \in {WithSizes(p) : p \in CommitPacks}
       \/ pack \in {WithSizes(p) : p \in BadDictPacks}
    /\ Fresh

Handle ==
    [ident_dict |-> ident_dict, path_dict |-> path_dict,
     ident_dict_end |-> ident_dict_end]

SetHandle(h) ==
    /\ ident_dict' = h.ident_dict
    /\ path_dict' = h.path_dict
    /\ ident_dict_end' = h.ident_dict_end

\* The running decode as a machine state, and back.
CurM ==
    [h |-> Handle, g |-> hist.g, frames |-> frames, dst |-> dst, sizep |-> sizep,
     st |-> "run", log |-> hist.log, ends |-> hist.ends]

SetM(m) ==
    /\ SetHandle(m.h)
    /\ frames' = m.frames
    /\ dst' = m.dst
    /\ sizep' = m.sizep
    /\ hist' = [hist EXCEPT !.g = m.g, !.log = m.log, !.ends = m.ends]

\* Where the caller stands after a call that ended this way: with a result
\* in hand ("done"), or nowhere, since die() and a crash end the process;
\* "deep" is a recursion this model stops following.
After(st) ==
    CASE st = "run" -> "tree"
      [] st \in {"ok", "fail", "null"} -> "done"
      [] st = "depth" -> "deep"
      [] OTHER -> "dead"

ObjsOfKind(kind) == {i \in 1..Len(pack.objs) : pack.objs[i].kind = kind}

\* A caller calls pv4_get_tree on a tree object.
CallTree ==
    /\ pc = "idle"
    /\ \E t \in ObjsOfKind("tree") : \E size \in pack.sizes[t] :
        LET m == TreeCall(pack, Handle, hist.g, pack.payoff[t], size)
        IN  /\ SetM(m)
            /\ pc' = After(m.st)
            /\ result' = [op |-> "tree", obj |-> t, size |-> size, st |-> m.st]
    /\ UNCHANGED <<pack, thr, dictIn, dictOut>>

\* The state after a step of the decode that leaves it as m.
TreeMoves(m) ==
    /\ SetM(m)
    /\ pc' = After(m.st)
    /\ result' = [result EXCEPT !.st = m.st]

\* decode_entries moves on by one step.
StepTree ==
    /\ pc = "tree"
    /\ TreeMoves(TreeStep(pack, CurM))
    /\ UNCHANGED <<pack, thr, dictIn, dictOut>>

\* What a call that wrote past its buffer can end in.
UbOutcomes == {"crash", "fail"}

\* The state after pv4_get_commit ended as r.
CommitReturns(c, size, r) ==
    \E st \in (IF r.st = "ub" THEN UbOutcomes ELSE {r.st}) :
        /\ SetHandle(r.h)
        /\ hist' = [hist EXCEPT !.g = r.g]
        /\ dst' = r.dst
        /\ sizep' = r.size
        /\ pc' = After(st)
        /\ result' = [op |-> "commit", obj |-> c, size |-> size, st |-> st,
                      ub |-> r.st = "ub", lines |-> r.lines, msg |-> r.msg,
                      dcp |-> r.dcp]

\* A caller calls pv4_get_commit on a commit object.
CallCommit ==
    /\ pc = "idle"
    /\ \E c \in ObjsOfKind("commit") : \E size \in pack.sizes[c] :
        CommitReturns(c, size,
                      Pv4GetCommit(pack, Handle, hist.g, pack.payoff[c], size))
    /\ UNCHANGED <<pack, frames, thr, dictIn, dictOut>>

\* A caller calls get_sha1ref on an indexed or an inline reference.
CallSha1ref ==
    /\ pc = "idle"
    /\ \E i \in 0..(pack.num_objects + 2) :
        LET buf == IF i = 0 THEN HrefBytes(0) ELSE EncodeVarint(i)
            r == GetSha1ref(pack, buf, 0)
        IN  /\ pc' = After(IF r.died THEN "die" ELSE "ok")
            /\ result' = [op |-> "sha1", index |-> i,
                          st |-> IF r.died THEN "die" ELSE "ok",
                          entry |-> r.entry, inl |-> r.inl, pos |-> r.pos]
    /\ UNCHANGED <<pack, ident_dict, path_dict, ident_dict_end, frames, dst,
                   sizep, hist, thr, dictIn, dictOut>>

\* The caller takes the result (and frees the buffer): ready for the next call.
Return ==
    /\ pc = "done"
    /\ pc' = "idle"
    /\ result' = NoResult
    /\ dst' = <<>>
    /\ sizep' = 0
    /\ hist' = [hist EXCEPT !.log = <<>>, !.ends = <<>>]
    /\ UNCHANGED <<pack, ident_dict, path_dict, ident_dict_end, frames, thr,
                   dictIn, dictOut>>

Next == CallTree \/ StepTree \/ CallCommit \/ CallSha1ref \/ Return

Spec == Init /\ [][Next]_vars

----------------------------------------------------------------------------
(* Callers that also look records up directly, on a few packs.             *)

\* Indices handed to get_identref and get_pathref.
MaxIndex == 3

\* The record a lookup result points at: prefix, string and NUL.
RecordAt(dict, ref) ==
    SubSeq(dict.data, ref + 1, ref + 2 + Strlen(dict.data, ref + 2) + 1)

LookupStatus(r) ==
    IF r.died THEN "die" ELSE IF r.ref = NULLREF THEN "null" ELSE "ok"

\* The state after get_identref / get_pathref returned r, a pointer into dict.
LookupReturns(kind, i, r, dict) ==
    /\ SetHandle(r.h)
    /\ hist' = [hist EXCEPT !.g = r.g,
                            !.views = IF LookupStatus(r) # "ok" THEN @
                                      ELSE @ \cup {[kind |-> kind, index |-> i,
                                                    rec |-> RecordAt(dict, r.ref)]}]
    /\ pc' = After(LookupStatus(r))
    /\ result' = [op |-> kind, index |-> i, st |-> LookupStatus(r), ref |-> r.ref,
                  first |-> NeedIdent(Handle) /\ NeedPath(Handle),
                  again |-> \E v \in hist.views : v.kind = kind /\ v.index = i]

IdentReturns(i, r) == LookupReturns("ident", i, r, r.h.ident_dict)

PathReturns(i, r) == LookupReturns("path", i, r, r.h.path_dict)

\* A caller calls get_identref on an encoded index.
CallIdentref ==
    /\ pc = "idle"
    /\ \E i \in 0..MaxIndex :
        IdentReturns(i, GetIdentref(pack, Handle, hist.g, EncodeVarint(i), 0))
    /\ UNCHANGED <<pack, frames, dst, sizep, thr, dictIn, dictOut>>

\* A caller calls get_pathref.
CallPathref ==
    /\ pc = "idle"
    /\ \E i \in 0..MaxIndex :
        PathReturns(i, GetPathref(pack, Handle, hist.g, i))
    /\ UNCHANGED <<pack, frames, dst, sizep, thr, dictIn, dictOut>>

CachePacks ==
    {GoodPack(<<LeafTree, a, b, PlainCommit>>) :
        a \in {TreeObj(<<Inl(1, 1), Cpy(1, 2, 1, 1)>>, 3, 9)},
        b \in {TreeObj(<<Cpy(0, 1, 1, 2)>>, 1, 2)}}
    \cup BadDictPacks

InitCache ==
    /\ pack \in {WithSizes(p) : p \in CachePacks}
    /\ Fresh

NextCache ==
    CallIdentref \/ CallPathref \/ CallCommit \/ CallTree \/ StepTree \/ Return

SpecCache == InitCache /\ [][NextCache]_vars

----------------------------------------------------------------------------
(* load_dict on its own, over every small buffer.                          *)

\* Longest inflated dictionary tried.
MaxDictLen == 7

\* Inflated buffers, and declared sizes around their length.
DictInputs ==
    {[buf |-> b, decl |-> d] :
        b \in SeqsUpTo({0, 65}, MaxDictLen), d \in 0..(MaxDictLen + 1)}

DictCases == {i \in DictInputs : i.decl \in Around(Len(i.buf), {})}

\* A pack without objects whose identity dictionary is the given one.
DictPack(i) == BuildPack(<<>>, i.decl, i.buf, Len(GoodPath), GoodPath)

InitDict ==
    /\ dictIn \in DictCases
    /\ pack = DictPack(dictIn)
    /\ FreshCaller
    /\ pc = "idle"
    /\ thr = <<>>
    /\ dictOut = NULL

\* load_dict(p, &offset) with offset at the identity dictionary.
RunLoadDict ==
    /\ pc = "idle"
    /\ dictOut' = LoadDict(pack, IdentDictOffset(pack))
    /\ pc' = "done"
    /\ UNCHANGED <<pack, ident_dict, path_dict, ident_dict_end, frames, dst,
                   sizep, result, hist, thr, dictIn>>

NextDict == RunLoadDict

SpecDict == InitDict /\ [][NextDict]_vars

----------------------------------------------------------------------------
(* Two threads in get_identref / get_pathref on one handle.  Nothing in    *)
(* the code orders their reads and writes of the handle, so each step     *)
(* below is one read or write of it.  thr[t] is [op, at, names, offset]:   *)
(* the function the thread called, where it stands, and the locals of     *)
(* load_ident_dict / load_path_dict.                                       *)

Threads == {1, 2}

ThreadStart(op) == [op |-> op, at |-> "start", names |-> NULL, offset |-> 0]

InitConc ==
    /\ pack \in {GoodPack(<<LeafTree>>)} \cup BadDictPacks
    /\ FreshCaller
    /\ pc = "threads"
    /\ thr \in [Threads -> {ThreadStart("ident"), ThreadStart("path")}]
    /\ dictIn = NULL
    /\ dictOut = NULL

Moves(t, at) == thr' = [thr EXCEPT ![t].at = at]

\* if (!p->ident_dict) in get_identref; if (!p->path_dict) in get_pathref.
ThreadCheck(t) ==
    /\ thr[t].at = "start"
    /\ IF thr[t].op = "ident"
       THEN Moves(t, IF NeedIdent(Handle) THEN "load_ident" ELSE "lookup")
       ELSE Moves(t, IF NeedPath(Handle) THEN "need_ident" ELSE "lookup")
    /\ UNCHANGED <<pc, ident_dict, path_dict, ident_dict_end, hist>>

\* if (!p->ident_dict) in load_path_dict.
ThreadCheckIdent(t) ==
    /\ thr[t].at = "need_ident"
    /\ Moves(t, IF NeedIdent(Handle) THEN "load_ident" ELSE "load_path")
    /\ UNCHANGED <<pc, ident_dict, path_dict, ident_dict_end, hist>>

\* What load_dict returned is in the thread's locals, or the thread died.
ThreadLoaded(t, ld, at) ==
    IF ld.dict = NULL
    THEN /\ pc' = "dead"
         /\ UNCHANGED thr
    ELSE /\ thr' = [thr EXCEPT ![t].names = ld.dict, ![t].offset = ld.offset,
                               ![t].at = at]
         /\ UNCHANGED pc

\* names = load_dict(p, &offset); if (!names) die(...);
ThreadLoadIdent(t) ==
    /\ thr[t].at = "load_ident"
    /\ ThreadLoaded(t, LoadDict(pack, IdentDictOffset(pack)), "set_ident")
    /\ UNCHANGED <<ident_dict, path_dict, ident_dict_end, hist>>

\* p->ident_dict = names;
ThreadSetIdent(t) ==
    /\ thr[t].at = "set_ident"
    /\ ident_dict' = thr[t].names
    /\ hist' = [hist EXCEPT !.g.identLoads = @ + 1,
                            !.g.identFrom = IdentDictOffset(pack)]
    /\ Moves(t, "set_end")
    /\ UNCHANGED <<pc, path_dict, ident_dict_end>>

\* p->ident_dict_end = offset;
ThreadSetEnd(t) ==
    /\ thr[t].at = "set_end"
    /\ ident_dict_end' = thr[t].offset
    /\ Moves(t, IF thr[t].op = "ident" THEN "lookup" ELSE "load_path")
    /\ UNCHANGED <<pc, ident_dict, path_dict, hist>>

\* offset = p->ident_dict_end; paths = load_dict(p, &offset); if (!paths) die(...);
ThreadLoadPath(t) ==
    /\ thr[t].at = "load_path"
    /\ ThreadLoaded(t, LoadDict(pack, PathDictOffset(pack, Handle)), "set_path")
    /\ UNCHANGED <<ident_dict, path_dict, ident_dict_end, hist>>

\* p->path_dict = paths;
ThreadSetPath(t) ==
    /\ thr[t].at = "set_path"
    /\ path_dict' = thr[t].names
    /\ hist' = [hist EXCEPT !.g.pathLoads = @ + 1, !.g.pathFrom = ident_dict_end]
    /\ Moves(t, "lookup")
    /\ UNCHANGED <<pc, ident_dict, ident_dict_end>>

\* The bounds check and the return of the record.
ThreadLookup(t) ==
    /\ thr[t].at = "lookup"
    /\ Moves(t, "done")
    /\ UNCHANGED <<pc, ident_dict, path_dict, ident_dict_end, hist>>

ThreadStep(t) ==
    \/ ThreadCheck(t)
    \/ ThreadCheckIdent(t)
    \/ ThreadLoadIdent(t)
    \/ ThreadSetIdent(t)
    \/ ThreadSetEnd(t)
    \/ ThreadLoadPath(t)
    \/ ThreadSetPath(t)
    \/ ThreadLookup(t)

NextConc ==
    /\ pc = "threads"
    /\ \E t \in Threads : ThreadStep(t)
    /\ UNCHANGED <<pack, frames, dst, sizep, result, dictIn, dictOut>>

SpecConc == InitConc /\ [][NextConc]_vars

----------------------------------------------------------------------------
(* Properties.                                                             *)

\* C1: whenever pv4_get_tree or pv4_get_commit returns a buffer, the bytes
\* the decode wrote into it (the tree entries; the header lines and the
\* inflated message) are exactly as many as the declared size.
C1_OutputLengthIsSize ==
    (pc = "done" /\ result.op \in {"tree", "commit"} /\ result.st = "ok")
        => Len(dst) = result.size

\* C1 case: a commit with parents and a message was returned.
C1_CommitReturned ==
    /\ pc = "done"
    /\ result.op = "commit"
    /\ result.st = "ok"
    /\ result.msg > 0
    /\ Len(result.lines) > 3

\* The full decode of tree object a: first with all the room it wants,
\* then with exactly the size that came out.
ProbeTree(pk, a) ==
    Pv4GetTreeRun(pk, FreshHandle, NoHist.g, pk.payoff[a], SizeLimit)

ExactTree(pk, a, probe) ==
    Pv4GetTreeRun(pk, FreshHandle, NoHist.g, pk.payoff[a], Len(probe.dst))

FullDecode(pk, a) == ExactTree(pk, a, ProbeTree(pk, a))

\* Where entry k (0-based) of a decoded tree starts in its bytes.
EntryStart(full, k) == IF k = 0 THEN 0 ELSE full.ends[k]

\* The bytes of entries a .. b-1 of a decoded tree.
EntryBytes(full, a, b) ==
    SubSeq(full.dst, EntryStart(full, a) + 1, EntryStart(full, b))

\* The bytes emitted for the copy e are those entries of the source's full
\* decode, when the source decodes in full.
CopyAgrees(e, full) ==
    full.st = "ok" =>
        /\ e.start + e.count <= Len(full.ends)
        /\ SubSeq(dst, e.from + 1, e.to) = EntryBytes(full, e.start, e.start + e.count)

\* C2: in a decoded tree, the bytes at the positions covered by a copy
\* record that names entries [a, b) of another tree are the bytes of
\* entries a .. b-1 of that tree's full decode, nested copies included.
C2_CopyRangeEquivalence ==
    (pc = "done" /\ result.op = "tree" /\ result.st = "ok") =>
        \A k \in 1..Len(hist.log) :
            CopyAgrees(hist.log[k], FullDecode(pack, ObjAt(pack, hist.log[k].src)))

\* C2 case: a decoded tree copied a range that starts inside its source,
\* and the source in turn copied part of it from a third tree.
C2_NestedRangeCopied ==
    /\ pc = "done"
    /\ result.op = "tree"
    /\ result.st = "ok"
    /\ \E j, k \in 1..Len(hist.log) :
        /\ hist.log[j].depth = 1
        /\ hist.log[j].start > 0
        /\ hist.log[k].depth = 2
        /\ hist.log[j].from <= hist.log[k].from
        /\ hist.log[k].from < hist.log[k].to
        /\ hist.log[k].to <= hist.log[j].to
        /\ FullDecode(pack, ObjAt(pack, hist.log[j].src)).st = "ok"

\* C3: an indexed hash reference i yields table entry i-1 for i in
\* 1..num_objects and fails for every larger i.
C3_IndexWithinTable ==
    (result.op = "sha1" /\ result.index >= 1) =>
        IF result.index <= pack.num_objects
        THEN result.st = "ok" /\ result.entry = result.index - 1
        ELSE result.st = "die"

\* The number of records a buffer is the concatenation of (two prefix
\* bytes, a string, a NUL), or -1 when it is no such concatenation.
RECURSIVE RecordsFrom(_, _)
RecordsFrom(buf, at) ==
    IF at = Len(buf) THEN 0
    ELSE LET nuls == {j \in (at + 3)..Len(buf) : buf[j] = 0}
         IN  IF nuls = {} THEN -1
             ELSE LET nul == CHOOSE j \in nuls : \A i \in nuls : j <= i
                      rest == RecordsFrom(buf, nul)
                  IN  IF rest < 0 THEN -1 ELSE rest + 1

WellFormed(buf) == RecordsFrom(buf, 0) >= 1

\* C4: load_dict accepts every dictionary of declared size >= 3 whose
\* inflated buffer is a concatenation of k >= 1 records, with nb_entries = k.
C4_AcceptsWellFormed ==
    (pc = "done" /\ dictIn.decl = Len(dictIn.buf) /\ dictIn.decl >= 3
        /\ WellFormed(dictIn.buf))
    => /\ dictOut.dict # NULL
       /\ dictOut.dict.nb_entries = RecordsFrom(dictIn.buf, 0)

\* Where the record at offset o of a dictionary ends: past the first NUL
\* at or after its third byte.
RecordEnd(d, o) ==
    1 + CHOOSE j \in (o + 2)..(Len(d.data) - 1) :
            /\ At(d.data, j) = 0
            /\ \A i \in (o + 2)..(j - 1) : At(d.data, i) # 0

\* The indexed records tile the first size bytes of the buffer.
Partition(d, size) ==
    /\ d.nb_entries >= 1
    /\ Len(d.offsets) = d.nb_entries
    /\ d.offsets[1] = 0
    /\ \A i \in 1..(d.nb_entries - 1) : d.offsets[i + 1] = RecordEnd(d, d.offsets[i])
    /\ RecordEnd(d, d.offsets[d.nb_entries]) = size

\* C5: when load_dict succeeds, the records it indexed partition the
\* inflated buffer exactly and end at dict_size; a buffer whose walk does
\* not end at dict_size yields no dictionary.
C5_ExactPartition ==
    (pc = "done" /\ dictOut.dict # NULL) =>
        /\ dictIn.decl = Len(dictIn.buf)
        /\ WellFormed(dictIn.buf)
        /\ SubSeq(dictOut.dict.data, 1, dictIn.decl) = dictIn.buf
        /\ Partition(dictOut.dict, dictIn.decl)

\* C5 case: a dictionary of several records was loaded.
C5_SeveralRecordsLoaded ==
    /\ pc = "done"
    /\ dictOut.dict # NULL
    /\ dictOut.dict.nb_entries >= 2

\* The records of tree object o as the pack's producer wrote them.
RecsOf(o) == pack.objs[o].recs

IsCopy(rec, flag) == rec.k = "cpy" /\ rec.flag = flag

\* Record r is a copy with the source-changed flag clear and no record
\* before it in the object sets a source.
Unsourced(recs, r) ==
    /\ IsCopy(recs[r], 0)
    /\ \A q \in 1..(r - 1) : ~IsCopy(recs[q], 1)

\* The records a frame has got past the source check of.
Passed(f) == Min(f.rec + (IF f.pcf = "call" THEN 1 ELSE 0), Len(RecsOf(f.obj)))

NoFramePastUnsourced ==
    \A i \in 1..Len(frames) :
        frames[i].pcf # "enter" =>
            \A r \in 1..Passed(frames[i]) : ~Unsourced(RecsOf(frames[i].obj), r)

\* The innermost frame is about to read a copy record that has no source.
NextIsUnsourced(f) ==
    /\ f.pcf = "loop"
    /\ f.count # 0
    /\ f.rec < Len(RecsOf(f.obj))
    /\ Unsourced(RecsOf(f.obj), f.rec + 1)

AtUnsourced == pc = "tree" /\ NextIsUnsourced(frames[Len(frames)])

\* C6: in every frame, a copy record with the flag clear that no flag-set
\* copy record of the same frame precedes makes the decode fail, and no
\* frame gets past such a record.
C6_UnsourcedCopyFails ==
    /\ []NoFramePastUnsourced
    /\ [][AtUnsourced => (pc' = "done" /\ result'.st = "fail")]_vars

\* C6 case: a tree failed whose copy record led into a source tree that
\* begins with a flag-clear copy record.
C6_RecursiveFrameFailed ==
    /\ pc = "done"
    /\ result.op = "tree"
    /\ result.obj = 3
    /\ result.st = "fail"
    /\ RecsOf(3) = <<Cpy(0, 1, 1, 2)>>
    /\ RecsOf(2) # <<>>
    /\ Unsourced(RecsOf(2), 1)

\* The pack offset of the object a copy record names.
NamedSource(rec) == pack.objoff[IF rec.src > 0 THEN rec.src ELSE -rec.src]

\* The latest record at or before r that sets a source (0 if none).
LastSet(recs, r) ==
    LET set == {q \in 1..r : IsCopy(recs[q], 1)}
    IN  IF set = {} THEN 0 ELSE CHOOSE q \in set : \A x \in set : x <= q

UsesFrameSource(e) ==
    /\ e.rec + 1 <= Len(RecsOf(e.obj))
    /\ LastSet(RecsOf(e.obj), e.rec + 1) # 0
    /\ e.src = NamedSource(RecsOf(e.obj)[LastSet(RecsOf(e.obj), e.rec + 1)])

\* C7: every copy that is carried out reads from the source set by the
\* latest flag-set copy record of its own frame, whatever was skipped and
\* whatever sources the recursive calls in between have set.
C7_StickySourceIsFrameLocal ==
    \A k \in 1..Len(hist.log) : UsesFrameSource(hist.log[k])

\* C7 case: a flag-clear copy was carried out after a recursive call of the
\* same frame had returned, in a decode that succeeded.
C7_ClearCopyAfterCall ==
    /\ pc = "done"
    /\ result.st = "ok"
    /\ \E j, k \in 1..Len(hist.log) :
        /\ hist.log[j].depth = hist.log[k].depth
        /\ hist.log[j].obj = hist.log[k].obj
        /\ hist.log[j].rec < hist.log[k].rec
        /\ IsCopy(RecsOf(hist.log[k].obj)[hist.log[k].rec + 1], 0)
        /\ \E n \in 1..Len(hist.log) :
            /\ hist.log[n].depth > hist.log[j].depth
            /\ hist.log[j].from <= hist.log[n].from
            /\ hist.log[n].to <= hist.log[j].to
            /\ hist.log[n].src # hist.log[j].src

BuiltOnce ==
    /\ hist.g.identLoads <= 1
    /\ hist.g.pathLoads <= 1
    /\ \A v, w \in hist.views :
        (v.kind = w.kind /\ v.index = w.index) => v.rec = w.rec

KeptAsSet ==
    /\ ident_dict # NULL => ident_dict' = ident_dict
    /\ path_dict # NULL => path_dict' = path_dict

\* C8: over any sequence of non-overlapping calls on one handle, each
\* dictionary is built at most once, a dictionary that is set is never
\* reassigned or modified, and lookups of one index return one record.
C8_DictionariesBuiltOnce == []BuiltOnce /\ [][KeptAsSet]_vars

\* C8 case: an index was looked up a second time, after lookups in both
\* dictionaries.
C8_LookupRepeated ==
    /\ pc = "done"
    /\ result.op = "ident"
    /\ result.st = "ok"
    /\ result.again
    /\ hist.g.identLoads = 1
    /\ hist.g.pathLoads = 1
    /\ \E v \in hist.views : v.kind = "path"

\* C9: with two threads in get_identref / get_pathref on a handle whose
\* dictionary is absent, each dictionary is loaded and assigned to the
\* handle at most once.
C9_AtMostOneMaterialization ==
    hist.g.identLoads <= 1 /\ hist.g.pathLoads <= 1

\* C10: path_dict present implies ident_dict present; the identity
\* dictionary is loaded from 12 + 20 * num_objects, ident_dict_end is the
\* offset just past its compressed stream, and the path dictionary is
\* loaded from ident_dict_end.
C10_DictionaryOffsets ==
    /\ path_dict # NULL => ident_dict # NULL
    /\ ident_dict # NULL =>
        /\ hist.g.identFrom = 12 + 20 * pack.num_objects
        /\ \E z \in pack.z :
            /\ z.at = DecodeVarint(pack.bytes, hist.g.identFrom).pos
            /\ z.data \o <<0>> = ident_dict.data
            /\ ident_dict_end = z.at + z.clen
    /\ path_dict # NULL => hist.g.pathFrom = ident_dict_end

\* C10 case: get_pathref was the first call on the handle and loaded both.
C10_PathrefFirst ==
    /\ pc = "done"
    /\ result.op = "path"
    /\ result.st = "ok"
    /\ result.first
    /\ path_dict # NULL

\* The commit object a finished pv4_get_commit call was made on.
CommitOf(r) == pack.objs[r.obj]

\* The call got as far as the identities: the tree line and every parent
\* line were emitted within the declared size.
ReachedIdents(r) ==
    /\ ~r.ub
    /\ sizep >= 0
    /\ Len(r.lines) >= 1 + Len(CommitOf(r).parents)

\* C11: a decode that meets an out-of-range dictionary index during
\* pv4_get_commit returns null, without aborting and without reading the
\* absent record.
C11_BadIndexReturnsNull ==
    (/\ result.op = "commit"
     /\ ident_dict # NULL
     /\ ReachedIdents(result)
     /\ CommitOf(result).cidx >= ident_dict.nb_entries)
    => (pc = "done" /\ result.st = "fail")

\* C12: in pv4_get_commit the output cursor never moves past the end of the
\* declared-size buffer and the remaining size never wraps below zero.
C12_CursorStaysInBuffer ==
    result.op = "commit" =>
        /\ result.dcp <= result.size
        /\ sizep >= 0
        /\ ~result.ub

\* C13: every pack window load_dict acquires is released when it returns.
C13_WindowReleased ==
    pc = "done" => dictOut.w_curs = "released"

\* Where record r + 1 of tree object o starts in the pack: after the
\* object's header, its entry count and its first r records.
RecordOffset(o, r) ==
    pack.payoff[o] + Len(EncodeVarint(pack.objs[o].nb))
    + Len(EncodeRecords(SubSeq(RecsOf(o), 1, r)))

\* A frame reads its own records one after the other, whatever its
\* recursive calls read: at the head of the loop it stands right after the
\* records it has consumed, and during a call its cursor stands right
\* after the copy record that made the call.
OwnCursor(f) ==
    /\ f.pcf = "loop" => f.offset = RecordOffset(f.obj, f.rec)
    /\ f.pcf = "call" =>
        /\ f.offset = RecordOffset(f.obj, f.rec)
        /\ f.scp = RecordOffset(f.obj, f.rec + 1)

\* A frame whose window may have moved has so little of it left that the
\* loop calls use_pack before it reads the next record.
WindowForced(f) == f.win = StaleWindow => f.avail < 20

\* C14: after a recursive call the calling frame resumes right after its
\* own copy record and re-acquires the window there before it reads on.
C14_OuterCursorUnmoved ==
    \A i \in 1..Len(frames) :
        frames[i].pcf # "enter" =>
            /\ frames[i].rec <= Len(RecsOf(frames[i].obj))
            /\ OwnCursor(frames[i])
            /\ WindowForced(frames[i])

\* C14 case: a frame has read a record after one of its recursive calls
\* returned, with the window re-acquired where that record starts.
C14_ReadAfterCall ==
    /\ pc = "tree"
    /\ \E i \in 1..Len(frames) : \E k \in 1..Len(hist.log) :
        /\ hist.log[k].depth = i
        /\ hist.log[k].obj = frames[i].obj
        /\ hist.log[k].to > hist.log[k].from
        /\ frames[i].rec = hist.log[k].rec + 2
        /\ frames[i].win = Window(RecordOffset(frames[i].obj, hist.log[k].rec + 1))

\* The entries written so far by the frames from i up.
RECURSIVE EmittedFrom(_)
EmittedFrom(i) ==
    IF i > Len(frames) THEN 0 ELSE frames[i].emitted + EmittedFrom(i + 1)

\* The counters of frame i: at the head of the loop what it has emitted and
\* what remains make up the count it was called with; while it waits for a
\* recursive call, the count handed to that call is the difference.
Bookkeeping(i) ==
    LET f == frames[i]
    IN  /\ f.start >= 0
        /\ f.count >= 0
        /\ f.start <= f.start0
        /\ f.emitted > 0 => f.start = 0
        /\ f.pcf \in {"enter", "loop"} => f.emitted + f.count = f.count0
        /\ f.pcf = "enter" => f.emitted = 0
        /\ f.pcf = "call" =>
            /\ i < Len(frames)
            /\ f.start = 0
            /\ f.emitted + f.count + frames[i + 1].count0 = f.count0

BookkeepingHolds ==
    /\ \A i \in 1..Len(frames) : Bookkeeping(i)
    /\ pc = "tree" => EmittedFrom(1) = Len(hist.ends)

\* A step in which the innermost frame returns 0.
ReturnsZero ==
    /\ pc = "tree"
    /\ Len(frames') = Len(frames) - 1
    /\ result'.st \in {"run", "ok"}

\* What holds of a frame that returns 0, and of its caller.
ReturnedComplete ==
    LET n == Len(frames)
    IN  /\ frames[n].count = 0
        /\ frames[n].emitted = frames[n].count0
        /\ n > 1 => frames'[n - 1].emitted =
                        frames[n - 1].emitted + frames[n].count0
        /\ hist'.ends = hist.ends

\* C15: in every frame of decode_entries, the entries emitted for it (its
\* inline entries and those of its recursive calls) and the remaining count
\* add up to the count it was called with, nothing is emitted while the
\* skip is not used up, neither counter goes below zero, and a frame
\* returns 0 only with count 0, having emitted the count it was called with.
C15_SkipEmitBookkeeping ==
    /\ []BookkeepingHolds
    /\ [][ReturnsZero => ReturnedComplete]_vars

\* C15 case: a recursive call that was given a skip has skipped, emitted
\* all of its range and is about to return to a caller that has emitted
\* inline entries of its own.
C15_SkippingCalleeDone ==
    /\ pc = "tree"
    /\ Len(frames) >= 2
    /\ frames[Len(frames)].pcf = "loop"
    /\ frames[Len(frames)].start0 > 0
    /\ frames[Len(frames)].count0 > 0
    /\ frames[Len(frames)].count = 0
    /\ frames[Len(frames) - 1].emitted > 0

\* The range of frame f does not lie inside the tree it reads.
RangeOutside(f) ==
    /\ f.obj # 0
    /\ pack.objs[f.obj].kind = "tree"
    /\ \/ f.start0 > pack.objs[f.obj].nb
       \/ f.start0 + f.count0 > pack.objs[f.obj].nb

\* No frame gets past the prologue with such a range.
NoFrameOutsideRange ==
    \A i \in 1..Len(frames) : frames[i].pcf # "enter" => ~RangeOutside(frames[i])

\* The innermost frame is about to run its prologue on such a range.
EntersOutsideRange ==
    /\ pc = "tree"
    /\ frames[Len(frames)].pcf = "enter"
    /\ RangeOutside(frames[Len(frames)])

\* C16: a decode_entries call whose range does not lie inside the tree it
\* reads (start > nb_entries or start + count > nb_entries) fails in its
\* prologue, having emitted nothing, and pv4_get_tree returns null.
C16_RangeOutsideTreeFails ==
    /\ []NoFrameOutsideRange
    /\ [][EntersOutsideRange => /\ pc' = "done"
                                /\ result'.st = "fail"
                                /\ dst' = dst
                                /\ hist'.ends = hist.ends]_vars

\* C16 case: pv4_get_tree returned null for a tree whose copy record asks
\* for entries 2 and 3 of the three-entry tree (entries 0..2).
C16_CopyPastEndFailed ==
    /\ pc = "done"
    /\ result.op = "tree"
    /\ result.obj = 2
    /\ result.st = "fail"
    /\ RecsOf(2) = <<Cpy(2, 2, 1, 1)>>
    /\ pack.objs[1].nb = 3
    /\ Len(hist.log) = 1
    /\ hist.log[1].start = 2
    /\ hist.log[1].count = 2
    /\ hist.log[1].to = -1

\* Frame j is a call of decode_entries with the arguments of the call that
\* frame i is, made while frame i is still running and before anything was
\* written since frame i was entered: the same object, range and header
\* flag, the same output cursor and remaining size.
Reentered(i, j) ==
    /\ frames[i].obj = frames[j].obj
    /\ frames[i].parse_hdr = frames[j].parse_hdr
    /\ frames[i].start0 = frames[j].start0
    /\ frames[i].count0 = frames[j].count0
    /\ \A k \in i..(j - 1) : frames[k].emitted = 0

\* C17: pv4_get_tree terminates on every pack, packs with cyclic copy
\* records included: the recursion of decode_entries is bounded, so no call
\* is entered again with the arguments and output position of a call that
\* is still running (such a call repeats itself without end).
C17_RecursionBounded ==
    \A i, j \in 1..Len(frames) : i < j => ~Reentered(i, j)

\* The commit of call r decoded with room to spare: its dcp is the length of
\* the header lines, its msg the length of the inflated message.
WholeCommit(r) ==
    Pv4GetCommit(pack, FreshHandle, NoHist.g, pack.payoff[r.obj], SizeLimit)

\* The call r succeeded exactly if the declared size is the length of the
\* whole commit c, where c decodes to its end.
SucceedsOnExactSize(r, c) ==
    c.st = "fail" =>
        ((pc = "done" /\ r.st = "ok") <=> r.size = c.dcp + c.msg)

\* C18: pv4_get_commit succeeds exactly when the length of the header
\* lines plus the length of the inflated message equals the declared size,
\* a commit with an empty message included.
C18_SucceedsIffSizeExact ==
    result.op = "commit" => SucceedsOnExactSize(result, WholeCommit(result))

====
